---- MODULE Spec2Model ----
(***************************************************************************)
(* Model of @straits/utils (src/src/index.js): traits are symbols, a value *)
(* implements a trait by carrying a property keyed by the symbol, trait    *)
(* sets are objects mapping names to symbols.                              *)
(*                                                                         *)
(* Symbols are numbered in allocation order (every `Symbol(name)` call     *)
(* yields the next number), objects are named by strings, implementation   *)
(* functions are opaque and a call is represented by the record of what    *)
(* was invoked, with which receiver (`this`) and which arguments.          *)
(***************************************************************************)
EXTENDS Integers, Sequences, FiniteSets, TLC

\* ---------------------------------------------------------------- bounds
MaxSyms   == 2      \* number of symbols the trait-set operations may allocate
MaxCreate == 1      \* number of symbols the caller may allocate with Symbol( name )
MaxArgs   == 1      \* length of the argument list of a dispatch call
MaxList   == 2      \* length of a name list

\* ---------------------------------------------------------------- universe
Names    == {"t", "u"}              \* trait names (non-numeric property keys)
Fns      == {"fA", "fB"}            \* user functions
ArgVals  == {"x"}                   \* argument values
SetIds   == {"A", "B"}              \* trait-set objects
Objs     == {"kid", "mid", "top"}   \* targets; kid delegates to mid, mid to top
SetTargets == {"mid"}               \* the target the trait-set operations are given
Source   == "source"                \* the object whose methods are adapted
Null     == "null"                  \* null / undefined target
Undef    == "undefined"             \* `this` of a plain function call
NoSym    == 0                       \* `undefined` where a symbol is looked up
Syms     == 1..MaxSyms

\* prototype (delegation) link of each target, fixed at construction
Proto(o) == CASE o = "kid" -> "mid"
              [] o = "mid" -> "top"
              [] OTHER     -> Null

\* ---------------------------------------------------------------- values
\* A property value attached under a symbol: nothing, a user function, or
\* the wrapper built by defineAndImplMethodsAsTraits.
NoImpl          == [kind |-> "none",   fn |-> "-", name |-> "-"]
UserFn(f)       == [kind |-> "fn",     fn |-> f,   name |-> "-"]
\* ({[methodName](){ return source[methodName]( this, ...arguments ); }})
MethodWrapper(n) == [kind |-> "method", fn |-> "-", name |-> n]

\* The outcome of a call: a return value, identified by the user function
\* that produced it, its receiver and its arguments; or a thrown error.
Returned(f, self, args) == [type |-> "return", fn |-> f, self |-> self, args |-> args]
Thrown(e, what, on)     == [type |-> "throw",  fn |-> e, self |-> on,   args |-> <<what>>]
NoOutcome               == [type |-> "none",   fn |-> "-", self |-> "-", args |-> <<>>]

RECURSIVE SeqsUpTo(_, _)
SeqsUpTo(S, n) == IF n = 0 THEN {<<>>}
                  ELSE LET shorter == SeqsUpTo(S, n - 1)
                       IN  shorter \cup {Append(s, x) : s \in shorter, x \in S}

ArgLists  == [1..MaxArgs -> ArgVals]
NameLists == SeqsUpTo(Names, MaxList)
Range(s)  == {s[i] : i \in 1..Len(s)}
NoDup(s)  == \A i, j \in 1..Len(s) : s[i] = s[j] => i = j
\* objects given as `{name: value}`: their keys are distinct and enumerate
\* in insertion order
KeysOf(m) == [i \in 1..Len(m) |-> m[i][1]]
ImplObjs(Vals) == {m \in SeqsUpTo(Names \X Vals, Cardinality(Names)) : NoDup(KeysOf(m))}
ImplementationObjs == ImplObjs({"fA"})

VARIABLES
    symbols,        \* description of every allocated symbol; symbol i is symbols[i]
    sets,           \* trait sets: built flag and own name->symbol entries in insertion order
    props,          \* own symbol-keyed properties of every target
    defaultImpls,   \* namespace.defaultImpls
    methods,        \* the functions `source` carries under each name
    last            \* the last operation: its arguments and its outcome

vars == <<symbols, sets, props, defaultImpls, methods, last>>

\* ---------------------------------------------------------------- the heap
\* The part of the state the trait-set operations rewrite, threaded through
\* them as one record; err is the error thrown, "ok" while none was, and done
\* counts the entries a loop has finished.
Heap == [symbols |-> symbols, sets |-> sets, props |-> props, err |-> "ok", done |-> 0]

Throw(h, e) == IF h.err = "ok" THEN [h EXCEPT !.err = e] ELSE h
Step(h)     == IF h.err = "ok" THEN [h EXCEPT !.done = @ + 1] ELSE h

\* variant: a symbol looked up by its description, as Symbol.for( name ) does
MutNewSymbolByName(h, name) ==
    IF \E i \in 1..Len(h.symbols) : h.symbols[i] = name
    THEN CHOOSE i \in 1..Len(h.symbols) :
             h.symbols[i] = name /\ \A j \in 1..(i - 1) : h.symbols[j] # name
    ELSE Len(h.symbols) + 1

\* Symbol(name): a new symbol, different from every symbol allocated before
NewSymbol(h, name) == Len(h.symbols) + 1
Alloc(h, name)     == [h EXCEPT !.symbols = Append(@, name)]

\* this[name] on a trait set
Get(entries, name) ==
    IF \E i \in 1..Len(entries) : entries[i].name = name
    THEN LET i == CHOOSE i \in 1..Len(entries) : entries[i].name = name
         IN  entries[i].sym
    ELSE NoSym

HasOwn(entries, name) == \E i \in 1..Len(entries) : entries[i].name = name

\* obj[name] = sym: a key that exists keeps its place, a new key goes last
Assign(entries, name, sym) ==
    IF HasOwn(entries, name)
    THEN [i \in 1..Len(entries) |->
            IF entries[i].name = name THEN [name |-> name, sym |-> sym] ELSE entries[i]]
    ELSE Append(entries, [name |-> name, sym |-> sym])

\* variant: only the target's own property is looked at
MutLookupOwn(p, target, sym) ==
    IF target = Null THEN NoImpl ELSE p[target][sym]

\* target[sym], following the prototype chain
RECURSIVE Lookup(_, _, _)
Lookup(p, target, sym) ==
    IF target = Null THEN NoImpl
    ELSE IF p[target][sym] # NoImpl THEN p[target][sym]
    ELSE Lookup(p, Proto(target), sym)

\* ---------------------------------------------------------------- Symbol traits
\* variant: a property that exists is not redefined
MutImplKeepFirst(h, sym, target, implementation) ==
    IF h.err # "ok" \/ h.props[target][sym] # NoImpl THEN h
    ELSE [h EXCEPT !.props[target][sym] = implementation]

\* Symbol.prototype.*impl: Object.defineProperty( target, this, {value, configurable:true} )
impl(h, sym, target, implementation) ==
    IF h.err # "ok" THEN h
    ELSE [h EXCEPT !.props[target][sym] = implementation]

\* Symbol.prototype.*implDefault: namespace.defaultImpls.set( this, implementation )
implDefault(d, sym, implementation) == [d EXCEPT ![sym] = implementation]

\* variant: the wrapper of a method forgets to pass its receiver on
MutInvokeNoTarget(m, implementation, self, args) ==
    CASE implementation.kind = "fn" ->
            Returned(implementation.fn, self, args)
      [] implementation.kind = "method" ->
            IF m[implementation.name] = "-"
            THEN Thrown("TypeError", implementation.name, Source)
            ELSE Returned(m[implementation.name], Source, args)
      [] OTHER -> Thrown("TypeError", "-", self)

\* calling an attached value with receiver self and arguments args
Invoke(m, implementation, self, args) ==
    CASE implementation.kind = "fn" ->
            Returned(implementation.fn, self, args)
      [] implementation.kind = "method" ->
            \* source[methodName]( this, ...arguments )
            IF m[implementation.name] = "-"
            THEN Thrown("TypeError", implementation.name, Source)
            ELSE Returned(m[implementation.name], Source, <<self>> \o args)
      [] OTHER -> Thrown("TypeError", "-", self)

\* Symbol.prototype.*asFreeFunction: the function closes over the symbol and
\* its description, and over nothing that changes
asFreeFunction(sy, sym) == [sym |-> sym, symName |-> sy[sym]]

\* variant: a registered default is preferred to the target's implementation
MutFreeFunctionDefaultFirst(f, p, d, m, target, args) ==
    IF d[f.sym] # NoImpl THEN Invoke(m, d[f.sym], Undef, <<target>> \o args)
    ELSE IF target = Null \/ Lookup(p, target, f.sym) = NoImpl
    THEN Thrown("NoImplementation", f.symName, target)
    ELSE Invoke(m, Lookup(p, target, f.sym), target, args)

\* variant: the default is called as a method of the target
MutFreeFunctionDefaultAsMethod(f, p, d, m, target, args) ==
    IF target = Null \/ Lookup(p, target, f.sym) = NoImpl
    THEN IF d[f.sym] # NoImpl
         THEN Invoke(m, d[f.sym], target, args)
         ELSE Thrown("NoImplementation", f.symName, target)
    ELSE Invoke(m, Lookup(p, target, f.sym), target, args)

\* the function returned by asFreeFunction, called as f( target, ...args )
\* when the properties are p, the defaults d and the methods of source m
FreeFunction(f, p, d, m, target, args) ==
    IF target = Null
    THEN IF d[f.sym] # NoImpl
         THEN Invoke(m, d[f.sym], Undef, <<target>> \o args)
         ELSE Thrown("NoImplementation", f.symName, target)
    ELSE IF Lookup(p, target, f.sym) = NoImpl
    THEN IF d[f.sym] # NoImpl
         THEN Invoke(m, d[f.sym], Undef, <<target>> \o args)
         ELSE Thrown("NoImplementation", f.symName, target)
    ELSE Invoke(m, Lookup(p, target, f.sym), target, args)

\* the free function of sym called in the current state, and in the next one
Dispatch(sym, target, args) ==
    FreeFunction(asFreeFunction(symbols, sym), props, defaultImpls, methods, target, args)
DispatchNext(sym, target, args) ==
    FreeFunction(asFreeFunction(symbols', sym), props', defaultImpls', methods', target, args)

\* ---------------------------------------------------------------- trait sets
Entries(h, S) == h.sets[S].entries

\* variant: the first assertion is missing, a name that exists is overwritten
MutAddSymbolNoGuard(h, S, name, sym) ==
    IF h.err # "ok" THEN h
    ELSE IF sym = NoSym THEN Throw(h, "InvalidTraitReference")
    ELSE [h EXCEPT !.sets[S].entries = Assign(@, name, sym)]

\* Object.prototype.*addSymbol: the two assertions, then this[name] = sym
addSymbol(h, S, name, sym) ==
    IF h.err # "ok" THEN h
    ELSE IF HasOwn(Entries(h, S), name) THEN Throw(h, "DuplicateTraitDefinition")
    ELSE IF sym = NoSym THEN Throw(h, "InvalidTraitReference")
    ELSE [h EXCEPT !.sets[S].entries = Assign(@, name, sym)]

\* Object.prototype.*defineTrait: this.*addSymbol( name, Symbol(name) )
defineTrait(h, S, name) ==
    IF h.err # "ok" THEN h
    ELSE addSymbol(Alloc(h, name), S, name, NewSymbol(h, name))

\* TraitSet.fromStrings: obj[name] = Symbol(name) for every name, in order
RECURSIVE fromStringsLoop(_, _, _, _)
fromStringsLoop(h, obj, names, i) ==
    IF i > Len(names) THEN [h |-> h, obj |-> obj]
    ELSE fromStringsLoop(Alloc(h, names[i]),
                         Assign(obj, names[i], NewSymbol(h, names[i])),
                         names, i + 1)

\* new TraitSet( obj ): copies the symbol-valued keys of obj
fromStrings(h, S, names) ==
    LET r == fromStringsLoop(h, <<>>, names, 1)
    IN  [r.h EXCEPT !.sets[S] = [built |-> TRUE, entries |-> r.obj]]

\* Object.prototype.*borrowTraits without names: every symbol of traitSet
RECURSIVE borrowAll(_, _, _, _)
borrowAll(h, S, from, i) ==
    IF i > Len(from) \/ h.err # "ok" THEN h
    ELSE borrowAll(Step(addSymbol(h, S, from[i].name, from[i].sym)), S, from, i + 1)

\* Object.prototype.*borrowTraits with names: this.*addSymbol( name, traitSet[name] )
RECURSIVE borrowNames(_, _, _, _, _)
borrowNames(h, S, from, names, i) ==
    IF i > Len(names) \/ h.err # "ok" THEN h
    ELSE borrowNames(Step(addSymbol(h, S, names[i], Get(from, names[i]))),
                     S, from, names, i + 1)

\* variant: this and traitSet exchanged, the symbols go the wrong way
MutBorrowTraitsSwapped(h, S, other, all, names) ==
    IF all THEN borrowAll(h, other, Entries(h, S), 1)
    ELSE borrowNames(h, other, Entries(h, S), names, 1)

\* the entries of traitSet are read before the loop starts writing:
\* borrowing from itself, a set meets its own first key and throws
borrowTraits(h, S, other, all, names) ==
    IF all THEN borrowAll(h, S, Entries(h, other), 1)
    ELSE borrowNames(h, S, Entries(h, other), names, 1)

\* Object.prototype.*traitsToFreeFunctions: name -> free function of this[name]
traitsToFreeFunctions(sy, entries) ==
    [i \in 1..Len(entries) |->
        [name |-> entries[i].name, fn |-> asFreeFunction(sy, entries[i].sym)]]

\* result[name] on the object traitsToFreeFunctions returns
FreeFunctionOf(fns, name) ==
    LET i == CHOOSE i \in 1..Len(fns) : fns[i].name = name IN fns[i].fn

\* Object.prototype.*implTraits
RECURSIVE implTraits(_, _, _, _, _)
implTraits(h, S, target, m, i) ==
    IF i > Len(m) \/ h.err # "ok" THEN h
    ELSE LET sym == Get(Entries(h, S), m[i][1])
         IN  implTraits(IF sym = NoSym THEN Throw(h, "InvalidTraitReference")
                        ELSE Step(impl(h, sym, target, UserFn(m[i][2]))),
                        S, target, m, i + 1)

\* Object.prototype.*defineAndImplTraits
RECURSIVE defineAndImplTraits(_, _, _, _, _)
defineAndImplTraits(h, S, target, m, i) ==
    IF i > Len(m) \/ h.err # "ok" THEN h
    ELSE defineAndImplTraits(
            Step(impl(defineTrait(h, S, m[i][1]), NewSymbol(h, m[i][1]), target, UserFn(m[i][2]))),
            S, target, m, i + 1)

\* Object.prototype.*defineAndImplMethodsAsTraits
RECURSIVE defineAndImplMethodsAsTraits(_, _, _, _, _)
defineAndImplMethodsAsTraits(h, S, target, methodList, i) ==
    IF i > Len(methodList) \/ h.err # "ok" THEN h
    ELSE defineAndImplMethodsAsTraits(
            Step(impl(defineTrait(h, S, methodList[i]), NewSymbol(h, methodList[i]),
                      target, MethodWrapper(methodList[i]))),
            S, target, methodList, i + 1)

\* ---------------------------------------------------------------- operations
\* last: the operation that ran last, the symbol it returned or was called
\* for, the error it threw, how many entries it finished, whether it replaced
\* an implementation attached before, what a call produced
NoOp == [op |-> "init", sym |-> NoSym, err |-> "ok", done |-> 0, replaced |-> FALSE,
         out |-> NoOutcome]

Allocated == 1..Len(symbols)
Built(S)  == sets[S].built

Commit(h) ==
    /\ symbols' = h.symbols
    /\ sets' = h.sets
    /\ props' = h.props

Result(op, sym, h) == [NoOp EXCEPT !.op = op, !.sym = sym, !.err = h.err, !.done = h.done]

Init ==
    /\ symbols = <<>>
    /\ sets = [S \in SetIds |-> [built |-> FALSE, entries |-> <<>>]]
    /\ props = [o \in Objs |-> [s \in Syms |-> NoImpl]]
    /\ defaultImpls = [s \in Syms |-> NoImpl]
    /\ methods = [n \in Names |-> IF n = "t" THEN "m_t" ELSE "-"]
    /\ last = NoOp

\* Symbol( name ), called by the user of the library
CreateSymbolOp(name) ==
    /\ Len(symbols) < MaxCreate
    /\ Commit(Alloc(Heap, name))
    /\ last' = Result("create", NewSymbol(Heap, name), Heap)
    /\ UNCHANGED <<defaultImpls, methods>>
\* the description of a symbol shows in the message of an error only: the
\* caller's symbols all get the description "t", and stay different symbols
CreateSymbol == \E name \in {"t"} : CreateSymbolOp(name)

\* sym.*impl( target, fn )
ImplOp(sym, target, f) ==
    /\ sym \in Allocated
    /\ Commit(impl(Heap, sym, target, UserFn(f)))
    /\ last' = [Result("impl", sym, Heap) EXCEPT
                   !.replaced = props[target][sym] \notin {NoImpl, UserFn(f)}]
    /\ UNCHANGED <<defaultImpls, methods>>
Impl == \E sym \in Syms, target \in Objs, f \in Fns : ImplOp(sym, target, f)

\* sym.*implDefault( fn )
ImplDefaultOp(sym, f) ==
    /\ sym \in Allocated
    /\ defaultImpls' = implDefault(defaultImpls, sym, UserFn(f))
    /\ last' = [Result("implDefault", sym, Heap) EXCEPT
                   !.replaced = defaultImpls[sym] \notin {NoImpl, UserFn(f)}]
    /\ UNCHANGED <<symbols, sets, props, methods>>
ImplDefault == \E sym \in Syms, f \in Fns : ImplDefaultOp(sym, f)

\* sym.*asFreeFunction()( target, ...args ): the function closes over sym
\* alone, so it is the same function whenever it was derived
CallFreeOp(sym, target, args) ==
    /\ sym \in Allocated
    /\ last' = [Result("call", sym, Heap) EXCEPT
                   !.out = FreeFunction(asFreeFunction(symbols, sym),
                                        props, defaultImpls, methods, target, args)]
    /\ UNCHANGED <<symbols, sets, props, defaultImpls, methods>>
CallFree == \E sym \in Syms, target \in Objs \cup {Null}, args \in ArgLists :
                CallFreeOp(sym, target, args)

\* S = TraitSet.fromStrings( names )
FromStringsOp(S, names) ==
    /\ ~Built(S)
    /\ S = "B" => Built("A")     \* the set constructed first is called A
    /\ Len(symbols) + Len(names) <= MaxSyms
    /\ Commit(fromStrings(Heap, S, names))
    /\ last' = Result("fromStrings", NoSym, Heap)
    /\ UNCHANGED <<defaultImpls, methods>>
FromStrings == \E S \in SetIds, names \in NameLists : FromStringsOp(S, names)

\* S.*defineTrait( name )
DefineTraitOp(S, name) ==
    /\ Built(S)
    /\ Len(symbols) < MaxSyms
    /\ LET h == defineTrait(Heap, S, name)
       IN  Commit(h) /\ last' = Result("defineTrait", NewSymbol(Heap, name), h)
    /\ UNCHANGED <<defaultImpls, methods>>
DefineTrait == \E S \in SetIds, name \in Names : DefineTraitOp(S, name)

\* S.*borrowTraits( other ) when all, S.*borrowTraits( other, names ) otherwise
BorrowTraitsOp(S, other, all, names) ==
    /\ Built(S) /\ Built(other)
    /\ all => names = <<>>
    /\ LET h == borrowTraits(Heap, S, other, all, names)
       IN  Commit(h) /\ last' = Result("borrowTraits", NoSym, h)
    /\ UNCHANGED <<defaultImpls, methods>>
BorrowTraits == \E S \in SetIds, other \in SetIds, all \in BOOLEAN :
                    \E names \in (IF all THEN {<<>>} ELSE NameLists) :
                        BorrowTraitsOp(S, other, all, names)

\* S.*traitsToFreeFunctions()[ name ]( target, ...args )
CallTraitOp(S, name, target, args) ==
    /\ Built(S)
    /\ HasOwn(traitsToFreeFunctions(symbols, sets[S].entries), name)
    /\ last' = [Result("callTrait", Get(sets[S].entries, name), Heap) EXCEPT
                   !.out = FreeFunction(
                       FreeFunctionOf(traitsToFreeFunctions(symbols, sets[S].entries), name),
                       props, defaultImpls, methods, target, args)]
    /\ UNCHANGED <<symbols, sets, props, defaultImpls, methods>>
CallTrait == \E S \in SetIds, name \in Names, target \in SetTargets \cup {Null}, args \in ArgLists :
                 CallTraitOp(S, name, target, args)

\* S.*implTraits( target, implementationObj )
ImplTraitsOp(S, target, m) ==
    /\ Built(S)
    /\ LET h == implTraits(Heap, S, target, m, 1)
       IN  Commit(h) /\ last' = Result("implTraits", NoSym, h)
    /\ UNCHANGED <<defaultImpls, methods>>
ImplTraits == \E S \in SetIds, target \in SetTargets, m \in ImplementationObjs :
                  ImplTraitsOp(S, target, m)

\* S.*defineAndImplTraits( target, implementationObj )
DefineAndImplTraitsOp(S, target, m) ==
    /\ Built(S)
    /\ Len(symbols) + Len(m) <= MaxSyms
    /\ LET h == defineAndImplTraits(Heap, S, target, m, 1)
       IN  Commit(h) /\ last' = Result("defineAndImplTraits", NoSym, h)
    /\ UNCHANGED <<defaultImpls, methods>>
DefineAndImplTraits == \E S \in SetIds, target \in SetTargets, m \in ImplementationObjs :
                           DefineAndImplTraitsOp(S, target, m)

\* S.*defineAndImplMethodsAsTraits( target, source, methodList )
DefineAndImplMethodsAsTraitsOp(S, target, methodList) ==
    /\ Built(S)
    /\ Len(symbols) + Len(methodList) <= MaxSyms
    /\ LET h == defineAndImplMethodsAsTraits(Heap, S, target, methodList, 1)
       IN  Commit(h) /\ last' = Result("defineAndImplMethodsAsTraits", NoSym, h)
    /\ UNCHANGED <<defaultImpls, methods>>
DefineAndImplMethodsAsTraits ==
    \E S \in SetIds, target \in SetTargets, methodList \in NameLists :
        DefineAndImplMethodsAsTraitsOp(S, target, methodList)

\* the dispatch protocol on symbols
Next ==
    \/ CreateSymbol
    \/ Impl
    \/ ImplDefault
    \/ CallFree

Spec == Init /\ [][Next]_vars

\* independently defined traits, their implementations and their defaults
NextIdentity ==
    \/ FromStrings
    \/ DefineTrait
    \/ ImplTraits
    \/ ImplDefault
    \/ CallTrait

SpecIdentity == Init /\ [][NextIdentity]_vars

\* the trait-set operations
NextSets ==
    \/ FromStrings
    \/ DefineTrait
    \/ BorrowTraits
    \/ ImplTraits
    \/ DefineAndImplTraits
    \/ DefineAndImplMethodsAsTraits
    \/ CallTrait

SpecSets == Init /\ [][NextSets]_vars

\* ---------------------------------------------------------------- properties
\* the objects target[sym] visits: target and everything it delegates to
RECURSIVE ChainFrom(_)
ChainFrom(o) == IF o = Null THEN {} ELSE {o} \cup ChainFrom(Proto(o))
Chain == [o \in Objs |-> ChainFrom(o)]
ChainOf(o) == IF o = Null THEN {} ELSE Chain[o]

\* o is visited before D when target[sym] is looked up
Closer(target, o, D) == o \in ChainOf(target) /\ D \in ChainOf(o) /\ o # D

\* neither target nor anything it delegates to carries sym in p
Unbound(p, target, sym) == target = Null \/ \A o \in ChainOf(target) : p[o][sym] = NoImpl

Targets == Objs \cup {Null}

\* C1: after sym.*impl( target, fn ) the free function of sym, called on
\* target, invokes fn with target as receiver and exactly the call's
\* arguments and returns its result, whether or not a default is registered
\* for sym; and it goes on doing so while fn stays attached.
C1_BindingRoundTrip ==
    [][ /\ \A sym \in Syms, target \in Objs, f \in Fns :
              (last'.op = "impl" /\ last'.sym = sym /\ ImplOp(sym, target, f)) =>
                  \A args \in ArgLists :
                      DispatchNext(sym, target, args) = Returned(f, target, args)
        /\ \A sym \in 1..Len(symbols'), target \in Objs, f \in Fns, args \in ArgLists :
              props'[target][sym] = UserFn(f) =>
                  DispatchNext(sym, target, args) = Returned(f, target, args)
      ]_vars

\* a call answered by the target's own implementation while another function
\* is registered as the default of the same symbol
C1_Witness ==
    /\ last.op = "call"
    /\ last.out.type = "return"
    /\ last.out.self \in Objs
    /\ props[last.out.self][last.sym] = UserFn(last.out.fn)
    /\ defaultImpls[last.sym] \notin {NoImpl, UserFn(last.out.fn)}

\* C2: when neither the target nor anything it delegates to carries the
\* symbol, or the target is null, the registry alone decides: after
\* sym.*implDefault( fn ) the call returns fn( target, ...args ), the target
\* being the first argument and no receiver; with no default registered the
\* call throws NoImplementation and invokes nothing.
C2_DefaultFallback ==
    [][ /\ \A sym \in Syms, f \in Fns :
              (last'.op = "implDefault" /\ last'.sym = sym /\ ImplDefaultOp(sym, f)) =>
                  \A target \in Targets, args \in ArgLists :
                      Unbound(props', target, sym) =>
                          DispatchNext(sym, target, args) =
                              Returned(f, Undef, <<target>> \o args)
        /\ \A sym \in 1..Len(symbols'), target \in Targets, args \in ArgLists :
              Unbound(props', target, sym) =>
                  DispatchNext(sym, target, args) =
                      IF defaultImpls'[sym] = NoImpl
                      THEN Thrown("NoImplementation", symbols'[sym], target)
                      ELSE Returned(defaultImpls'[sym].fn, Undef, <<target>> \o args)
      ]_vars

\* a call on an object that carries nothing, answered by the default
C2_Witness ==
    /\ last.op = "call"
    /\ last.out.type = "return"
    /\ last.out.self = Undef
    /\ last.out.args[1] \in Objs
    /\ Unbound(props, last.out.args[1], last.sym)

\* C3: dispatch is resolved at every call from what is attached then: an
\* impl makes every later call on the target, and on whatever reaches the
\* target first along its chain, invoke the function just attached and never
\* the one it replaced; an implDefault does the same for the calls that fall
\* back; no other operation changes what a call resolves to; and a free
\* function derived before a step resolves as one derived after it.
C3_LastWriteWins ==
    [][ /\ \A sym \in Syms, target \in Objs, f \in Fns :
              (last'.op = "impl" /\ last'.sym = sym /\ ImplOp(sym, target, f)) =>
                  \A o \in Objs, args \in ArgLists :
                      (target \in ChainOf(o)
                          /\ \A c \in Objs : Closer(o, c, target) => props'[c][sym] = NoImpl)
                      => DispatchNext(sym, o, args) = Returned(f, o, args)
        /\ \A sym \in Syms, f \in Fns :
              (last'.op = "implDefault" /\ last'.sym = sym /\ ImplDefaultOp(sym, f)) =>
                  \A target \in Targets, args \in ArgLists :
                      LET out == DispatchNext(sym, target, args)
                      IN  Unbound(props', target, sym) => out.type = "return" /\ out.fn = f
        /\ \/ UNCHANGED <<symbols, props, defaultImpls, methods>>
           \/ \A sym \in 1..Len(symbols), target \in Targets, args \in ArgLists :
                 DispatchNext(sym, target, args) # Dispatch(sym, target, args) =>
                     /\ last'.op \in {"impl", "implDefault"}
                     /\ last'.sym = sym
                     /\ last'.op = "implDefault" => Unbound(props, target, sym)
        /\ \/ UNCHANGED symbols
           \/ \A sym \in 1..Len(symbols), target \in Targets, args \in ArgLists :
                 FreeFunction(asFreeFunction(symbols, sym),
                              props', defaultImpls', methods', target, args)
                     = DispatchNext(sym, target, args)
      ]_vars

\* an impl that replaced the function attached before
C3_Witness ==
    /\ last.op = "impl"
    /\ last.replaced
    /\ \E target \in Objs, args \in ArgLists :
          /\ props[target][last.sym] # NoImpl
          /\ Dispatch(last.sym, target, args) =
                 Returned(props[target][last.sym].fn, target, args)

\* C10: the implementation a call uses is the one of the first object along
\* the target's delegation chain that carries the symbol, invoked with the
\* target, not its holder, as receiver, and neither the default nor
\* NoImplementation; the target's own implementation comes first; and
\* attaching one to the target changes no call on what it delegates to.
C10_DelegationChain ==
    [][ /\ \A sym \in 1..Len(symbols'), target \in Objs, D \in Objs, args \in ArgLists :
              (/\ D \in ChainOf(target)
               /\ props'[D][sym] # NoImpl
               /\ \A c \in Objs : Closer(target, c, D) => props'[c][sym] = NoImpl)
              => DispatchNext(sym, target, args) = Returned(props'[D][sym].fn, target, args)
        /\ \A sym \in Syms, target \in Objs, f \in Fns :
              (last'.op = "impl" /\ last'.sym = sym /\ ImplOp(sym, target, f)) =>
                  \A D \in ChainOf(target) \ {target}, args \in ArgLists :
                      DispatchNext(sym, D, args) = Dispatch(sym, D, args)
      ]_vars

\* a call on kid answered by the implementation of top, two links up, with
\* kid as receiver, while a default is registered
C10_Witness ==
    /\ last.op = "call"
    /\ last.out.type = "return"
    /\ last.out.self = "kid"
    /\ props["kid"][last.sym] = NoImpl
    /\ props["mid"][last.sym] = NoImpl
    /\ props["top"][last.sym] = UserFn(last.out.fn)
    /\ defaultImpls[last.sym] # NoImpl

\* S[name] in the current state and in the next one
SymOf(S, name)     == Get(sets[S].entries, name)
SymOfNext(S, name) == Get(sets'[S].entries, name)

Slots == SetIds \X Names

\* C4: identifiers are told apart by identity, not by name: every identifier
\* that defineTrait or fromStrings puts in a set is one no earlier call
\* returned, and no step makes two names, of one set or of two, hold the
\* same identifier, so two independently defined traits are different
\* identifiers even under the same name; and implementing through A.t, or
\* registering a default for A.t, leaves every call of the free function of
\* B.t as it was.
C4_IdentityNotName ==
    [][ /\ \/ UNCHANGED sets
           \/ /\ \A S \in SetIds, n \in Names :
                    (SymOfNext(S, n) # NoSym /\ SymOfNext(S, n) # SymOf(S, n)) =>
                        (SymOfNext(S, n) \notin Allocated /\ symbols'[SymOfNext(S, n)] = n)
              /\ \A a \in Slots, b \in Slots :
                    (/\ a # b
                     /\ SymOfNext(a[1], a[2]) # NoSym
                     /\ SymOfNext(a[1], a[2]) = SymOfNext(b[1], b[2])) =>
                        (SymOf(a[1], a[2]) # NoSym /\ SymOf(a[1], a[2]) = SymOf(b[1], b[2]))
        /\ \/ UNCHANGED <<symbols, props, defaultImpls, methods>>
           \/ /\ \A S \in SetIds, m \in ImplementationObjs :
                    (last'.op = "implTraits" /\ ImplTraitsOp(S, "mid", m)) =>
                        \A b \in Slots, target \in Targets, args \in ArgLists :
                            (SymOf(b[1], b[2]) # NoSym
                                /\ (b[1] # S \/ b[2] \notin Range(KeysOf(m))))
                            => DispatchNext(SymOf(b[1], b[2]), target, args)
                                   = Dispatch(SymOf(b[1], b[2]), target, args)
              /\ \A a \in Slots, f \in Fns :
                    (/\ last'.op = "implDefault"
                     /\ SymOf(a[1], a[2]) # NoSym
                     /\ last'.sym = SymOf(a[1], a[2])
                     /\ ImplDefaultOp(SymOf(a[1], a[2]), f)) =>
                        \A b \in Slots, target \in Targets, args \in ArgLists :
                            (b # a /\ SymOf(b[1], b[2]) # NoSym)
                            => DispatchNext(SymOf(b[1], b[2]), target, args)
                                   = Dispatch(SymOf(b[1], b[2]), target, args)
      ]_vars

\* A and B each define "t"; A.t is implemented on the target and has a
\* default, and the free function of B.t still throws NoImplementation
C4_Witness ==
    /\ SymOf("A", "t") # NoSym
    /\ SymOf("B", "t") # NoSym
    /\ props["mid"][SymOf("A", "t")] # NoImpl
    /\ defaultImpls[SymOf("A", "t")] # NoImpl
    /\ last.op = "callTrait"
    /\ last.sym = SymOf("B", "t")
    /\ last.out = Thrown("NoImplementation", "t", "mid")

\* the names of the entries of a trait set, in order
KeyNames(entries) == [i \in 1..Len(entries) |-> entries[i].name]

\* the names a borrow is asked to add
Requested(other, all, names) ==
    IF all THEN Range(KeyNames(sets[other].entries)) ELSE Range(names)

\* C5: borrowing copies identifiers and allocates none: a borrow leaves the
\* symbols, the set borrowed from and every implementation as they were,
\* every name it adds to S holds the identifier the other set holds for it,
\* and when it returns S holds all the requested names; afterwards an
\* implementation attached through one set is what the free function derived
\* from the other set for the same identifier invokes.
C5_BorrowKeepsIdentity ==
    [][ /\ \A S \in SetIds, other \in SetIds, all \in BOOLEAN, names \in NameLists :
              (last'.op = "borrowTraits" /\ BorrowTraitsOp(S, other, all, names)) =>
                  /\ symbols' = symbols
                  /\ sets'[other] = sets[other]
                  /\ props' = props
                  /\ \A n \in Names :
                        SymOfNext(S, n) # SymOf(S, n) =>
                            (SymOfNext(S, n) = SymOf(other, n) /\ SymOf(other, n) # NoSym)
                  /\ last'.err = "ok" =>
                        \A n \in Requested(other, all, names) :
                            (SymOfNext(S, n) = SymOf(other, n) /\ SymOf(other, n) # NoSym)
        /\ \A S \in SetIds, m \in ImplementationObjs :
              (last'.op = "implTraits" /\ last'.err = "ok" /\ ImplTraitsOp(S, "mid", m)) =>
                  \A S2 \in SetIds, n \in Range(KeysOf(m)), args \in ArgLists :
                      SymOf(S2, n) = SymOf(S, n) =>
                          FreeFunction(
                              FreeFunctionOf(traitsToFreeFunctions(symbols', sets'[S2].entries), n),
                              props', defaultImpls', methods', "mid", args)
                          = Returned("fA", "mid", args)
      ]_vars

\* B borrowed a name from A, and the free function derived from B invokes
\* what was attached to the target for that identifier
C5_Witness ==
    /\ last.op = "callTrait"
    /\ last.out.type = "return"
    /\ last.out.self = "mid"
    /\ \E n \in Names :
          /\ SymOf("A", n) = last.sym
          /\ SymOf("B", n) = last.sym

\* C6 as stated: defineTrait and defineAndImplTraits throw
\* DuplicateTraitDefinition whenever a name they are asked to add is in S
\* already, and so does a borrow from another set whenever a name it is
\* asked for, and the other set holds, is in S already; a name of S keeps
\* its identifier for ever.
C6_DuplicateAlways ==
    [][ /\ \A S \in SetIds, n \in Names :
              (last'.op = "defineTrait" /\ DefineTraitOp(S, n) /\ SymOf(S, n) # NoSym) =>
                  last'.err = "DuplicateTraitDefinition"
        /\ \A S \in SetIds, other \in SetIds, all \in BOOLEAN, names \in NameLists :
              (/\ last'.op = "borrowTraits"
               /\ S # other
               /\ BorrowTraitsOp(S, other, all, names)
               /\ \E n \in Requested(other, all, names) :
                     SymOf(S, n) # NoSym /\ SymOf(other, n) # NoSym) =>
                  last'.err = "DuplicateTraitDefinition"
        /\ \A S \in SetIds, m \in ImplementationObjs :
              (/\ last'.op = "defineAndImplTraits"
               /\ DefineAndImplTraitsOp(S, "mid", m)
               /\ \E n \in Range(KeysOf(m)) : SymOf(S, n) # NoSym) =>
                  last'.err = "DuplicateTraitDefinition"
        /\ \A S \in SetIds, n \in Names : SymOf(S, n) # NoSym => SymOfNext(S, n) = SymOf(S, n)
        /\ \A S \in SetIds : NoDup(KeyNames(sets'[S].entries))
      ]_vars

\* a borrow with a name list reaches names[i] when every name listed before
\* it is held by S or by the set borrowed from
Reaches(S, other, names, i) ==
    \A j \in 1..(i - 1) : SymOf(S, names[j]) # NoSym \/ SymOf(other, names[j]) # NoSym

\* C6, amended: defineTrait, defineAndImplTraits and a borrow of a whole
\* set throw DuplicateTraitDefinition whenever a name they are asked to add
\* is in S already; a borrow with a name list does so when it reaches such
\* a name, that is unless a name listed before it is in neither set, where
\* it stops with InvalidTraitReference; in every case a name of S keeps the
\* identifier it has, and holds one identifier only.
C6_DuplicateGuard ==
    [][ /\ \A S \in SetIds, n \in Names :
              (last'.op = "defineTrait" /\ DefineTraitOp(S, n) /\ SymOf(S, n) # NoSym) =>
                  last'.err = "DuplicateTraitDefinition"
        /\ \A S \in SetIds, other \in SetIds :
              (/\ last'.op = "borrowTraits"
               /\ BorrowTraitsOp(S, other, TRUE, <<>>)
               /\ \E n \in Requested(other, TRUE, <<>>) : SymOf(S, n) # NoSym) =>
                  last'.err = "DuplicateTraitDefinition"
        /\ \A S \in SetIds, other \in SetIds, names \in NameLists :
              (/\ last'.op = "borrowTraits"
               /\ BorrowTraitsOp(S, other, FALSE, names)
               /\ \E i \in 1..Len(names) :
                     SymOf(S, names[i]) # NoSym /\ Reaches(S, other, names, i)) =>
                  last'.err = "DuplicateTraitDefinition"
        /\ \A S \in SetIds, m \in ImplementationObjs :
              (/\ last'.op = "defineAndImplTraits"
               /\ DefineAndImplTraitsOp(S, "mid", m)
               /\ \E n \in Range(KeysOf(m)) : SymOf(S, n) # NoSym) =>
                  last'.err = "DuplicateTraitDefinition"
        /\ \A S \in SetIds, n \in Names : SymOf(S, n) # NoSym => SymOfNext(S, n) = SymOf(S, n)
        /\ \A S \in SetIds : NoDup(KeyNames(sets'[S].entries))
      ]_vars

\* a borrow stopped by a name its set holds already, which it still holds
C6_Witness ==
    /\ last.op = "borrowTraits"
    /\ last.err = "DuplicateTraitDefinition"
    /\ \E n \in Names : SymOf("A", n) # NoSym /\ SymOf("B", n) # NoSym

\* source[name]( target, ...args ), called directly
SourceCall(m, name, target, args) ==
    IF m[name] = "-" THEN Thrown("TypeError", name, Source)
    ELSE Returned(m[name], Source, <<target>> \o args)

\* C7: when S.*defineAndImplMethodsAsTraits( target, source, methodList )
\* returns, S holds under every listed name an identifier allocated by this
\* call, and the free function of that identifier, called on the target or
\* on an object that delegates to it, produces what
\* source.name( thatObject, ...args ) produces: the method of source is
\* called with the object first and the call's arguments after it; the
\* methods of source are left as they were.
C7_AdaptMethods ==
    [][ \A S \in SetIds, methodList \in NameLists :
            (/\ last'.op = "defineAndImplMethodsAsTraits"
             /\ DefineAndImplMethodsAsTraitsOp(S, "mid", methodList)) =>
                /\ methods' = methods
                /\ last'.err = "ok" =>
                      \A n \in Range(methodList) :
                          /\ SymOf(S, n) = NoSym
                          /\ SymOfNext(S, n) \in (1..Len(symbols')) \ Allocated
                          /\ \A o \in {"mid", "kid"}, args \in ArgLists :
                                DispatchNext(SymOfNext(S, n), o, args)
                                    = SourceCall(methods, n, o, args)
      ]_vars

\* a call of an adapted trait on the target, answered by the method of
\* source with the target as its first argument
C7_Witness ==
    /\ last.op = "callTrait"
    /\ last.out.type = "return"
    /\ last.out.self = Source
    /\ last.out.fn = methods["t"]
    /\ last.out.args[1] = "mid"
    /\ props["mid"][last.sym] = MethodWrapper("t")

BulkOps == {"borrowTraits", "implTraits", "defineAndImplTraits",
            "defineAndImplMethodsAsTraits"}

\* C8: every operation is all-or-nothing: when a bulk operation throws, the
\* names of every set and the implementations attached to every object are
\* what they were before the call.
C8_AllOrNothing ==
    [][ (last'.op \in BulkOps /\ last'.err # "ok") =>
            (sets' = sets /\ props' = props) ]_vars

\* C9: fromStrings given a list in which a name occurs twice throws
\* DuplicateTraitDefinition instead of returning a set.
C9_FromStringsGuard ==
    [][ \A S \in SetIds, names \in NameLists :
            (last'.op = "fromStrings" /\ FromStringsOp(S, names) /\ ~NoDup(names)) =>
                (last'.err = "DuplicateTraitDefinition" /\ ~sets'[S].built) ]_vars

====
